---- MODULE Spec2Model ----
(***************************************************************************)
(* ParallelProcessor (Backend/utils/parallel.py): one parallel_process     *)
(* call, its per-item tasks `one(idx, item)` on the asyncio event loop,    *)
(* the tenacity retry wrapper, the per-item wait_for timeout, the          *)
(* semaphore, the AsyncLimiter bucket, the progress counter and the        *)
(* executor threads a synchronous process_func runs in.                    *)
(*                                                                         *)
(* Python lists are 0-based; the sequences below are 1-based, so the task  *)
(* of Python index idx is task idx + 1 here.                               *)
(***************************************************************************)
EXTENDS Integers, Sequences, FiniteSets, TLC

\* Bounds of the model.
MaxItems == 2
MaxWorkers == 2
MaxRetries == 1

\* The rate limits a call is given: none (0), or one request per second.
RateLimits == {0, 1}

\* Python values are tagged tuples, so that None compares with any of them:
\* None, an int n, and the marker of "no value yet" in history variables.
None == <<"None">>
Int_(n) == <<"int", n>>
NoValue == <<"NoValue">>

Max(a, b) == IF a >= b THEN a ELSE b
Min(a, b) == IF a <= b THEN a ELSE b

VARIABLES
    callPc,        \* where the parallel_process call is: idle, gather, shutdown, returned
    items,         \* flat_items handed to _async_process_all
    workers,       \* the worker count after determine_worker_count
    max_retries,   \* argument max_retries
    timeout,       \* argument timeout (seconds per item; 0 disables it)
    is_coro,       \* asyncio.iscoroutinefunction(process_func)
    rate,          \* rate_limit_per_sec (0: no limiter)
    sem,           \* free permits of asyncio.Semaphore(workers)
    level,         \* fill level of the AsyncLimiter bucket
    results,       \* the results list
    completed,     \* the progress counter
    pc,            \* per task: limiter, sem, running, succeeded, failed, cancelled
    attempts,      \* per task: invocations of process_func started
    call,          \* per task: an invocation of process_func is being awaited
    orphan,        \* per task: an executor thread still runs process_func, its await cancelled
    raised,        \* per task: invocations that raised (history)
    produced,      \* per task: the value process_func returned to the task (history)
    timedOut,      \* per task: wait_for expired (history)
    writers,       \* per slot: the tasks that assigned it, in order (history)
    overtaken,     \* some task finished before a task of a lower index did (history)
    events,        \* per task: what it has done so far, in order (history)
    pushed,        \* the values progress.update was called with, in order (history)
    ret,           \* what parallel_process returned
    fault,         \* what went wrong outside process_func: none, cancel, task, display
    now,           \* time since the call began, in periods of 1 / rate_limit_per_sec
    startedAt,     \* the times at which items entered RUNNING, in order (history)
    times,         \* per task under a timeout: when it got the gate, began its last attempt, ended (history)
    fnCall,        \* the helper called last: none, create_batches, determine_worker_count
    fnArgs,        \* its arguments
    fnOut,         \* what it returned
    releases,      \* release server: the rows of table releases
    builds,        \* release server: the rows of table builds
    nextId,        \* release server: builds inserted so far (the next row's id)
    threads,       \* release server: per request thread, the build request it serves
    reply,         \* release server: the update endpoint's request and its answer
    release,       \* release server: the row of the release the summaries are saved for
    changelogs,    \* release server: the rows of table changelog_entries of that release
    saves          \* release server: the summaries save_to_database was given (history)

taskVars == <<pc, attempts, call, orphan, raised, produced, timedOut>>
argVars == <<items, workers, max_retries, timeout, is_coro, rate>>
histVars == <<writers, overtaken, events, pushed>>
clockVars == <<now, startedAt, times>>
fnVars == <<fnCall, fnArgs, fnOut>>
srvVars == <<releases, builds, nextId, threads, reply>>
sumVars == <<release, changelogs, saves>>
extVars == <<sumVars>>
vars == <<callPc, argVars, sem, level, results, completed, taskVars, histVars, ret, fault, clockVars, fnVars, srvVars, extVars>>

\* ---- Worker and batching helpers ----

\* os.cpu_count() of the machine the calls of Spec run on.
CpuCount == 4

\* Faulty variant: an explicit count is taken as it is.
DetermineWorkerCountNoFloor(cpu_count, w) ==
    LET default_workers == Min((IF cpu_count = None THEN 4 ELSE cpu_count[2]) * 2, 128)
    IN  IF w = None THEN default_workers ELSE w[2]

\* cpu_count is what os.cpu_count() returns: an int, or None.
determine_worker_count(cpu_count, w) ==
    LET default_workers == Min((IF cpu_count = None THEN 4 ELSE cpu_count[2]) * 2, 128)
    IN  IF w = None THEN default_workers ELSE Max(1, w[2])

\* Faulty variant: the requested size is used whatever the total.
RequestedBatchSize(total, batch_size) == batch_size

effective_batch_size(total, batch_size) ==
    IF total > 1000 THEN Max(batch_size, total \div 50)
    ELSE IF total < 50 THEN Max(1, Max(1, total \div 4))
    ELSE batch_size

\* Faulty variant: the indices of a batch count from its own start.
BatchLocalIndices(i, hi) == [j \in 1..(hi - i) |-> j - 1]

\* list(range(i, hi))
BatchIndices(i, hi) == [j \in 1..(hi - i) |-> i + j - 1]

\* A batch is <<indices, batch_items>>; indices are Python's (0-based).
create_batches(its, batch_size) ==
    LET total == Len(its)
        bs == effective_batch_size(total, batch_size)
        starts == {i \in 0..(total - 1) : i % bs = 0}
    IN  [k \in 1..Cardinality(starts) |->
            LET i == (k - 1) * bs
                hi == Min(i + bs, total)
            IN  << BatchIndices(i, hi), SubSeq(its, i + 1, hi) >>]

RECURSIVE flat_items(_)
flat_items(batches) ==
    IF batches = <<>> THEN <<>>
    ELSE batches[1][2] \o flat_items(Tail(batches))

\* ---- Retry wrapper ----

\* Faulty variant: the first attempt is counted as a retry.
MaxAttemptsWithoutFirst(mr) == mr

\* stop=stop_after_attempt(max_retries + 1): the attempts tenacity allows.
MaxAttempts(mr) == mr + 1

\* Faulty variant: tenacity gives up one attempt early.
StopOneAttemptEarly(attempt_number, max_attempt_number) ==
    attempt_number + 1 >= max_attempt_number

\* tenacity's stop_after_attempt(max_attempt_number), asked after attempt attempt_number.
stop_after_attempt(attempt_number, max_attempt_number) ==
    attempt_number >= max_attempt_number

\* ---- Run asyncio in any context ----

\* What parallel_process gives its caller.
Pending == [kind |-> "pending"]
ReturnsList(list) == [kind |-> "list", value |-> list]
ReturnsNone == [kind |-> "None"]
Raises == [kind |-> "raise"]

\* Faulty variant: the thread's result never reaches result_box.
RunAsyncioEmptyBox(in_loop, outcome) ==
    IF ~in_loop THEN outcome ELSE ReturnsNone

\* _run_asyncio(coro) for a coroutine that ends with `outcome`: asyncio.run in this
\* thread hands the outcome on; in a thread of its own a raise leaves result_box
\* empty, and result_box.get('value') is None.
run_asyncio(in_loop, outcome) ==
    IF ~in_loop THEN outcome
    ELSE IF outcome.kind = "raise" THEN ReturnsNone ELSE outcome

\* ---- Core async execution ----

Tasks == 1..Len(items)

\* `if timeout and timeout > 0`
TimeoutEnabled == timeout > 0

\* `limiter = AsyncLimiter(rate_limit_per_sec, 1) if rate_limit_per_sec > 0 else None`
LimiterPresent(rate_limit_per_sec) == rate_limit_per_sec > 0

\* Faulty variant: the semaphore starts without a permit.
NewSemaphoreEmpty(value) == 0

\* Faulty variant: the semaphore admits one item at a time, whatever workers is.
NewSemaphoreOfOne(value) == 1

\* Faulty variant: one permit too many.
NewSemaphoreOneMore(value) == value + 1

\* sem = asyncio.Semaphore(workers): the permits it starts with.
NewSemaphore(value) == value

\* Faulty variant: the permit is given back twice.
ReleaseTwice(value) == value + 2

\* Faulty variant: the semaphore is left without giving the permit back.
ReleaseNothing(value) == value

\* Leaving `async with sem:` gives the permit back.
Release(value) == value + 1

\* Faulty variant: results = [], filled as tasks finish.
AllocNothing(total_items) == <<>>

\* results = [None] * total_items
AllocResults(total_items) == [i \in 1..total_items |-> None]

\* Faulty variant: results are stored in the order the tasks finish.
SlotByCompletion(idx) == completed + 1

\* Faulty variant: every task assigns results[0].
SlotFirst(idx) == 1

\* The slot `results[idx] = ...` assigns in the task of index idx.
SlotOf(idx) == idx

\* results[idx] = value
AssignSlot(res, idx, value) == [res EXCEPT ![SlotOf(idx)] = value]

\* Faulty variant: the except branch stores an error marker.
FailureAsError == <<"error">>

\* The except branch's `results[idx] = None`.
FailureValue == None

\* Faulty variant: the counter is bumped in the try/except branch and again in finally.
IncrementTwice(c) == c + 2

\* completed += 1
Increment(c) == c + 1

Terminal(i) == pc[i] \in {"succeeded", "failed"}

\* The item states of the design: PENDING, RUNNING, SUCCEEDED, FAILED.
ItemState(i) ==
    CASE pc[i] \in {"limiter", "sem"} -> "PENDING"
      [] pc[i] = "running" -> "RUNNING"
      [] pc[i] = "succeeded" -> "SUCCEEDED"
      [] pc[i] = "failed" -> "FAILED"
      [] pc[i] = "cancelled" -> "CANCELLED"

Running == {i \in Tasks : pc[i] = "running"}

\* The values process_func may return for an item: a value of its own, or None.
ValueOf(item) == <<"value", item>>
ReturnValues(item) == {ValueOf(item), None}

\* The times of a task that has not reached the gate. The times are those the timer
\* of asyncio.wait_for is set and read at, and are kept for calls with a timeout.
NoTimes == [gate |-> -1, invoke |-> -1, end |-> -1]
Stamp(t) == IF TimeoutEnabled THEN t ELSE -1

\* The list of n distinct work items.
ItemList(n) == [i \in 1..n |-> 10 * i]

InitProcessor ==
    /\ callPc = "idle"
    /\ items = <<>>
    /\ workers = 0
    /\ max_retries = 0
    /\ timeout = 0
    /\ is_coro = FALSE
    /\ rate = 0
    /\ sem = 0
    /\ level = 0
    /\ results = <<>>
    /\ completed = 0
    /\ pc = <<>>
    /\ attempts = <<>>
    /\ call = <<>>
    /\ orphan = <<>>
    /\ raised = <<>>
    /\ produced = <<>>
    /\ timedOut = <<>>
    /\ writers = <<>>
    /\ overtaken = FALSE
    /\ events = <<>>
    /\ pushed = <<>>
    /\ ret = Pending
    /\ fault = "none"
    /\ now = 0
    /\ startedAt = <<>>
    /\ times = <<>>
    /\ fnCall = "none"
    /\ fnArgs = <<>>
    /\ fnOut = <<>>

\* The release server, its tables empty and no request made.
InitServer ==
    /\ releases = {}
    /\ builds = {}
    /\ nextId = 1
    /\ threads = <<>>
    /\ reply = <<>>

\* session.query(Release).filter_by(version=...).first() finding no row.
NoRelease == <<>>

\* No release saved by the summary agent yet.
InitSummary ==
    /\ release = NoRelease
    /\ changelogs = <<>>
    /\ saves = <<>>

Init == InitProcessor /\ InitServer /\ InitSummary

\* parallel_process -> process_batches -> _run_asyncio(_async_process_all(...)) up to
\* the creation of the tasks (or the empty-input return).
ParallelProcess(its, w, batch_size, mr, to, coro, r) ==
    /\ callPc = "idle"
    /\ LET flat == flat_items(create_batches(its, batch_size))
           total_items == Len(flat)
       IN  /\ items' = flat
           /\ workers' = determine_worker_count(Int_(CpuCount), w)
           /\ max_retries' = mr
           /\ timeout' = to
           /\ is_coro' = coro
           /\ rate' = r
           /\ IF total_items = 0
              THEN /\ callPc' = "returned"
                   /\ \E in_loop \in BOOLEAN : ret' = run_asyncio(in_loop, ReturnsList(<<>>))
                   /\ UNCHANGED <<sem, results, taskVars, writers, events, times>>
              ELSE /\ callPc' = "gather"
                   /\ ret' = ret
                   /\ sem' = NewSemaphore(determine_worker_count(Int_(CpuCount), w))
                   /\ results' = AllocResults(total_items)
                   /\ pc' = [i \in 1..total_items |->
                                IF LimiterPresent(r) THEN "limiter" ELSE "sem"]
                   /\ attempts' = [i \in 1..total_items |-> 0]
                   /\ call' = [i \in 1..total_items |-> FALSE]
                   /\ orphan' = [i \in 1..total_items |-> FALSE]
                   /\ raised' = [i \in 1..total_items |-> 0]
                   /\ produced' = [i \in 1..total_items |-> NoValue]
                   /\ timedOut' = [i \in 1..total_items |-> FALSE]
                   /\ writers' = [i \in 1..total_items |-> <<>>]
                   /\ events' = [i \in 1..total_items |-> <<>>]
                   /\ times' = [i \in 1..total_items |-> NoTimes]
    /\ UNCHANGED <<level, completed, overtaken, pushed, fault, now, startedAt, fnVars, srvVars, extVars>>

\* `async with limiter: pass`: one unit enters the bucket when it has room.
AcquireLimiter(i) ==
    /\ callPc = "gather"
    /\ pc[i] = "limiter"
    /\ level + 1 <= rate
    /\ level' = level + 1
    /\ pc' = [pc EXCEPT ![i] = "sem"]
    /\ events' = [events EXCEPT ![i] = Append(@, "permit")]
    /\ UNCHANGED <<callPc, argVars, sem, results, completed, attempts, call, orphan,
                   raised, produced, timedOut, writers, overtaken, pushed, ret, fault, clockVars, fnVars, srvVars, extVars>>

\* Time passes: the bucket leaks one unit. Only a task waiting for the limiter reads
\* the level, so the leak is taken while there is one.
Leak ==
    /\ callPc = "gather"
    /\ \E i \in Tasks : pc[i] = "limiter"
    /\ level > 0
    /\ level' = level - 1
    /\ UNCHANGED <<callPc, argVars, sem, results, completed, taskVars, histVars, ret, fault, clockVars, fnVars, srvVars, extVars>>

\* `async with sem:` entered; the task goes on, without suspending, to the first
\* attempt of safe_call: process_func is invoked (awaited directly, or in an executor
\* thread). Nothing obliges the invocation to finish.
AcquireSem(i) ==
    /\ callPc = "gather"
    /\ pc[i] = "sem"
    /\ sem > 0
    /\ sem' = sem - 1
    /\ pc' = [pc EXCEPT ![i] = "running"]
    /\ attempts' = [attempts EXCEPT ![i] = @ + 1]
    /\ call' = [call EXCEPT ![i] = TRUE]
    /\ startedAt' = Append(startedAt, now)
    /\ times' = [times EXCEPT ![i].gate = Stamp(now), ![i].invoke = Stamp(now)]
    /\ events' = [events EXCEPT ![i] = @ \o <<"gate", "invoke">>]
    /\ UNCHANGED <<callPc, argVars, level, results, completed, orphan,
                   raised, produced, timedOut, writers, overtaken, pushed, ret, fault, now, fnVars, srvVars, extVars>>

\* The backoff sleep of tenacity is over: safe_call starts the next attempt.
Invoke(i) ==
    /\ callPc = "gather"
    /\ pc[i] = "running"
    /\ ~call[i]
    /\ attempts' = [attempts EXCEPT ![i] = @ + 1]
    /\ call' = [call EXCEPT ![i] = TRUE]
    /\ events' = [events EXCEPT ![i] = Append(@, "invoke")]
    /\ times' = [times EXCEPT ![i].invoke = Stamp(now)]
    /\ UNCHANGED <<callPc, argVars, sem, level, results, completed, pc, orphan,
                   raised, produced, timedOut, writers, overtaken, pushed, ret, fault, now, startedAt, fnVars, srvVars, extVars>>

UpdateEvery == 10

\* Faulty variant: the display is updated at every UpdateEvery-th completion only.
UpdateDueAtMultiples(c) == c % UpdateEvery = 0

\* The finally block of `one` updates the progress display at every UpdateEvery-th
\* completion and at the last one.
UpdateDue(c) == c % UpdateEvery = 0 \/ c = Len(items)

\* The calls of progress.update made while the counter goes from c to c + k.
RECURSIVE Updates(_, _)
Updates(c, k) ==
    IF k = 0 THEN <<>>
    ELSE (IF UpdateDue(c + 1) THEN <<c + 1>> ELSE <<>>) \o Updates(c + 1, k - 1)

\* Faulty variant: an item whose retries are exhausted is queued again.
RequeueOnFailure(ok) == IF ok THEN "succeeded" ELSE "sem"

\* Where `one` ends: after the assignment of the try branch, or after the one of
\* the except branch.
FinalState(ok) == IF ok THEN "succeeded" ELSE "failed"

\* The tail of `one` in the order of the code: the slot assignment of the try or
\* the except branch, the counter increment of the finally block, and the release
\* of the semaphore on leaving `async with sem:`, which encloses the try statement.
TailEvents == <<"slot", "count", "release">>

\* What is left of the tail for a task that is cancelled inside `async with sem:`.
CancelEvents == <<"count", "release">>

\* The tail of `one`: the slot assignment of the try or the except branch, the
\* finally block's counter increment, and the release of the semaphore.
Finish(i, value, ok) ==
    /\ results' = AssignSlot(results, i, value)
    /\ events' = [events EXCEPT ![i] = @ \o TailEvents]
    /\ pushed' = pushed \o Updates(completed, 1)
    /\ times' = [times EXCEPT ![i].end = Stamp(now)]
    /\ writers' = [writers EXCEPT ![SlotOf(i)] = Append(@, i)]
    /\ overtaken' = (overtaken \/ \E j \in 1..(i - 1) : ~Terminal(j))
    /\ completed' = Increment(completed)
    /\ sem' = Release(sem)
    /\ pc' = [pc EXCEPT ![i] = FinalState(ok)]

\* The awaited invocation returns v.
Return(i, v) ==
    /\ callPc = "gather"
    /\ pc[i] = "running"
    /\ call[i]
    /\ call' = [call EXCEPT ![i] = FALSE]
    /\ produced' = [produced EXCEPT ![i] = v]
    /\ Finish(i, v, TRUE)
    /\ UNCHANGED <<callPc, argVars, level, attempts, orphan, raised, timedOut, ret, fault, now, startedAt, fnVars, srvVars, extVars>>

\* The awaited invocation raises an Exception: tenacity stops (reraise, the except
\* branch of `one`) or waits for the next attempt.
Raise(i) ==
    /\ callPc = "gather"
    /\ pc[i] = "running"
    /\ call[i]
    /\ call' = [call EXCEPT ![i] = FALSE]
    /\ raised' = [raised EXCEPT ![i] = @ + 1]
    /\ IF stop_after_attempt(attempts[i], MaxAttempts(max_retries))
       THEN Finish(i, FailureValue, FALSE)
       ELSE UNCHANGED <<results, histVars, completed, sem, pc, times>>
    /\ UNCHANGED <<callPc, argVars, level, attempts, orphan, produced, timedOut, ret, fault, now, startedAt, fnVars, srvVars, extVars>>

\* asyncio.wait_for expires: safe_call is cancelled and TimeoutError reaches the
\* except branch. A coroutine invocation ends with the cancellation; an executor
\* thread cannot be cancelled and keeps running.
Timeout(i) ==
    /\ callPc = "gather"
    /\ TimeoutEnabled
    /\ pc[i] = "running"
    /\ timedOut' = [timedOut EXCEPT ![i] = TRUE]
    /\ call' = [call EXCEPT ![i] = FALSE]
    /\ orphan' = [orphan EXCEPT ![i] = ~is_coro /\ call[i]]
    /\ Finish(i, FailureValue, FALSE)
    /\ UNCHANGED <<callPc, argVars, level, attempts, raised, produced, ret, fault, now, startedAt, fnVars, srvVars, extVars>>

\* An executor thread whose result nobody awaits any more finishes.
OrphanFinish(i) ==
    /\ callPc \in {"gather", "shutdown"}
    /\ orphan[i]
    /\ orphan' = [orphan EXCEPT ![i] = FALSE]
    /\ UNCHANGED <<callPc, argVars, sem, level, results, completed, pc, attempts, call,
                   raised, produced, timedOut, histVars, ret, fault, clockVars, fnVars, srvVars, extVars>>

\* asyncio.gather(*tasks) completes; the display is set to total_items,
\* _async_process_all returns results and asyncio.run starts closing the loop.
GatherDone ==
    /\ callPc = "gather"
    /\ fault = "none"
    /\ \A i \in Tasks : Terminal(i)
    /\ callPc' = "shutdown"
    /\ pushed' = Append(pushed, Len(items))
    /\ UNCHANGED <<argVars, sem, level, results, completed, taskVars, writers, overtaken,
                   events, ret, fault, clockVars, fnVars, srvVars, extVars>>

ThreadsAlive == {i \in Tasks : orphan[i]}

\* asyncio.run: shutdown_default_executor joined every executor thread; the result
\* goes back through _run_asyncio, process_batches and parallel_process.
RunReturns ==
    /\ callPc = "shutdown"
    /\ ThreadsAlive = {}
    /\ callPc' = "returned"
    /\ \E in_loop \in BOOLEAN : ret' = run_asyncio(in_loop, ReturnsList(results))
    /\ UNCHANGED <<argVars, sem, level, results, completed, taskVars, histVars, fault, clockVars, fnVars, srvVars, extVars>>

\* Python 3.12 on: shutdown_default_executor has a deadline (300 s) and gives up on
\* the join; Python 3.9 to 3.11 have none, and this step never happens.
JoinDeadline ==
    /\ callPc = "shutdown"
    /\ ThreadsAlive # {}
    /\ callPc' = "returned"
    /\ \E in_loop \in BOOLEAN : ret' = run_asyncio(in_loop, ReturnsList(results))
    /\ UNCHANGED <<argVars, sem, level, results, completed, taskVars, histVars, fault, clockVars, fnVars, srvVars, extVars>>

Next ==
    \/ \E n \in 0..MaxItems, w \in {Int_(k) : k \in 0..MaxWorkers}, bs \in {1, 20},
          mr \in 0..MaxRetries, to \in {0, 1}, coro \in BOOLEAN, r \in RateLimits :
          ParallelProcess(ItemList(n), w, bs, mr, to, coro, r)
    \/ \E i \in Tasks : AcquireLimiter(i)
    \/ Leak
    \/ \E i \in Tasks : AcquireSem(i)
    \/ \E i \in Tasks : Invoke(i)
    \/ \E i \in Tasks : \E v \in ReturnValues(items[i]) : Return(i, v)
    \/ \E i \in Tasks : Raise(i)
    \/ \E i \in Tasks : Timeout(i)
    \/ \E i \in Tasks : OrphanFinish(i)
    \/ GatherDone
    \/ RunReturns
    \/ JoinDeadline

Spec == Init /\ [][Next]_vars

\* ---- The helpers on their own ----

\* The inputs the helpers are called with; create_batches is called for inputs of at
\* most MaxBatches batches of the requested size.
Totals == (0..60) \cup {999, 1000, 1001, 1049, 1050, 2000}
BatchSizes == {1, 2, 3, 20, 25, 41}
MaxBatches == 250
CpuCounts == {None} \cup {Int_(c) : c \in {1, 4, 64, 96}}
WorkerArgs == {None} \cup {Int_(w) : w \in -3..5}

CreateBatches(its, batch_size) ==
    /\ fnCall' = "create_batches"
    /\ fnArgs' = [items |-> its, batch_size |-> batch_size]
    /\ fnOut' = create_batches(its, batch_size)
    /\ UNCHANGED <<callPc, argVars, sem, level, results, completed, taskVars, histVars,
                   ret, fault, clockVars, srvVars, extVars>>

DetermineWorkerCount(cpu_count, w) ==
    /\ fnCall' = "determine_worker_count"
    /\ fnArgs' = [cpu_count |-> cpu_count, workers |-> w]
    /\ fnOut' = determine_worker_count(cpu_count, w)
    /\ UNCHANGED <<callPc, argVars, sem, level, results, completed, taskVars, histVars,
                   ret, fault, clockVars, srvVars, extVars>>

NextFn ==
    \/ \E n \in Totals, b \in BatchSizes :
          /\ n \div b <= MaxBatches
          /\ CreateBatches(ItemList(n), b)
    \/ \E c \in CpuCounts, w \in WorkerArgs : DetermineWorkerCount(c, w)

FnSpec == Init /\ [][NextFn]_vars

\* ---- The rate limiter in time ----

\* The calls of the timed specification: up to RateItems items, a worker each, and a
\* process_func that is never seen to return, so that the limiter alone decides when
\* an item starts.
RateItems == 10
TimedRates == {1, 2}

\* Some task can take a step now: a unit fits into the bucket, or the gate is free.
Ready(i) ==
    \/ pc[i] = "limiter" /\ level + 1 <= rate
    \/ pc[i] = "sem" /\ sem > 0

\* One period of 1 / rate_limit_per_sec passes (the time a waiting acquire sleeps
\* before it looks again): the bucket leaks one unit. The loop runs the tasks that
\* are ready before it sleeps.
Tick ==
    /\ callPc = "gather"
    /\ \E i \in Tasks : pc[i] = "limiter"
    /\ \A i \in Tasks : ~Ready(i)
    /\ now' = now + 1
    /\ level' = Max(level - 1, 0)
    /\ UNCHANGED <<callPc, argVars, sem, results, completed, taskVars, histVars, ret,
                   fault, startedAt, times, fnVars, srvVars, extVars>>

NextRate ==
    \/ \E n \in 1..RateItems, r \in TimedRates :
          ParallelProcess(ItemList(n), Int_(n), 20, 0, 0, TRUE, r)
    \/ \E i \in Tasks : AcquireLimiter(i)
    \/ \E i \in Tasks : AcquireSem(i)
    \/ Tick

RateSpec == Init /\ [][NextRate]_vars

\* ---- The per-item timeout in time ----

\* Calls of a coroutine process_func with one worker and a timeout of TimedTimeout
\* seconds, watched for MaxTime seconds; with a rate limit of 1 per second a period
\* of the limiter is a second. The tasks reach the limiter and the semaphore in the
\* order they were created in, and both wake their waiters in that order.
TimedTimeout == 2
MaxTime == 4

\* No task created before task i waits at p.
FirstAt(i, p) == \A j \in 1..(i - 1) : pc[j] # p

\* Faulty variant: the timeout runs from the start of the call.
DeadlineFromCallStart(i) == timeout

\* asyncio.wait_for(safe_call(...), timeout=timeout) is reached, without a
\* suspension, when `async with sem:` is entered, and its timer is set then.
Deadline(i) == times[i].gate + timeout

\* The timer of wait_for is due.
Expired(i) == TimeoutEnabled /\ pc[i] = "running" /\ now >= Deadline(i)

\* The timer of wait_for fires when it is due.
TimeoutFires(i) ==
    /\ i \in Tasks
    /\ Expired(i)
    /\ Timeout(i)

\* A second passes and the bucket leaks a unit. The loop fires the timers that are
\* due before it sleeps on.
SecondPasses ==
    /\ callPc = "gather"
    /\ now < MaxTime
    /\ \A i \in Tasks : ~Expired(i)
    /\ now' = now + 1
    /\ level' = Max(level - 1, 0)
    /\ UNCHANGED <<callPc, argVars, sem, results, completed, taskVars, histVars, ret,
                   fault, startedAt, times, fnVars, srvVars, extVars>>

NextTimed ==
    \/ \E n \in 1..MaxItems, mr \in 0..MaxRetries, r \in RateLimits :
          ParallelProcess(ItemList(n), Int_(1), 20, mr, TimedTimeout, TRUE, r)
    \/ \E i \in Tasks : FirstAt(i, "limiter") /\ AcquireLimiter(i)
    \/ \E i \in Tasks : FirstAt(i, "sem") /\ AcquireSem(i)
    \/ \E i \in Tasks : Invoke(i)
    \/ \E i \in Tasks : Return(i, ValueOf(items[i]))
    \/ \E i \in Tasks : Raise(i)
    \/ \E i \in Tasks : TimeoutFires(i)
    \/ SecondPasses
    \/ GatherDone
    \/ RunReturns

TimedSpec == Init /\ [][NextTimed]_vars

\* ---- The progress display over a longer call ----

\* Calls of up to ProgressItems items with two workers, no retry, no timeout and no
\* rate limit. The tasks reach `async with sem:` in the order they were created in,
\* and asyncio.Semaphore wakes its waiters in that order.
ProgressItems == 12

NextProgress ==
    \/ \E n \in 1..ProgressItems : ParallelProcess(ItemList(n), Int_(2), 20, 0, 0, TRUE, 0)
    \/ \E i \in Tasks : /\ \A j \in 1..(i - 1) : pc[j] # "sem"
                        /\ AcquireSem(i)
    \/ \E i \in Tasks : Return(i, ValueOf(items[i]))
    \/ \E i \in Tasks : Raise(i)
    \/ GatherDone
    \/ RunReturns

ProgressSpec == Init /\ [][NextProgress]_vars

\* ---- Oracle.query_all (Backend/utils/oracle.py) ----

\* A Python string, and the outcome of a function: a value returned or an Exception.
Str_(text) == <<"str", text>>
Returns(value) == [kind |-> "return", value |-> value]
RaisesException == [kind |-> "raise"]

\* What one chat.completions.create call may do: answer with a text, answer with a
\* message whose content is None, answer with no choice at all (choices[0] raises
\* IndexError), or raise.
Created(content) == [kind |-> "created", content |-> content]
ApiOutcomes ==
    {Created(Str_("answer")), Created(None), [kind |-> "no_choice"], [kind |-> "raise"]}

\* completion.choices[0].message.content or ""
ContentOrEmpty(completion) ==
    IF completion.kind # "created" THEN RaisesException
    ELSE Returns(IF completion.content = None \/ completion.content = Str_("")
                 THEN Str_("")
                 ELSE completion.content)

\* _query_openai: the request, and once more without logprobs when the first try
\* raised; what the second try raises goes to the caller.
_query_openai(first, second) ==
    IF ContentOrEmpty(first).kind = "return" THEN ContentOrEmpty(first)
    ELSE ContentOrEmpty(second)

QueryFailed == Str_("QUERY_FAILED: ...")

\* Oracle.query: `except Exception as e: return f"QUERY_FAILED: {str(e)}"`
query(first, second) ==
    IF _query_openai(first, second).kind = "raise" THEN Returns(QueryFailed)
    ELSE _query_openai(first, second)

\* Faulty variant: the query's exception is passed on to the retry wrapper.
ProcessFuncReraises(first, second) == _query_openai(first, second)

\* process_func of query_all: self.query(...) in a try of its own.
process_func(first, second) ==
    IF query(first, second).kind = "raise" THEN Returns(QueryFailed)
    ELSE query(first, second)

\* query_items: (prompt, key) for every prompt, key None without query_key_list.
PromptList == <<"first prompt", "second prompt", "third prompt">>
QueryItems(n) == [i \in 1..n |-> <<Str_(PromptList[i]), None>>]

\* `workers = workers or min(32, (os.cpu_count() or 4) * 4)`
QueryWorkers(w) ==
    IF w = None \/ w = Int_(0) THEN Int_(Min(32, CpuCount * 4)) ELSE w

\* query_all: parallel_process over the query items with the synchronous
\* process_func, batch_size 10 and no rate limit.
QueryAll(n, w, mr, to) ==
    ParallelProcess(QueryItems(n), QueryWorkers(w), 10, mr, to, FALSE, 0)

\* The step of safe_call for task i: the invocation it awaits ends as process_func
\* ends for some behaviour of the API, or, after an invocation that raised, the
\* retry wrapper starts the next attempt.
OracleTask(i) ==
    IF call[i]
    THEN \E first, second \in ApiOutcomes :
            IF process_func(first, second).kind = "raise"
            THEN Raise(i)
            ELSE Return(i, process_func(first, second).value)
    ELSE Invoke(i)

NextOracle ==
    \/ \E n \in 0..MaxItems, w \in {None, Int_(1)}, mr \in 0..MaxRetries, to \in {0, 1} :
          QueryAll(n, w, mr, to)
    \/ \E i \in Tasks : AcquireSem(i)
    \/ \E i \in Tasks : OracleTask(i)
    \/ \E i \in Tasks : Timeout(i)
    \/ \E i \in Tasks : OrphanFinish(i)
    \/ GatherDone
    \/ RunReturns
    \/ JoinDeadline

OracleSpec == Init /\ [][NextOracle]_vars

\* ---- Cancellation by the outer scope ----

\* The main task is cancelled while it awaits gather (asyncio.run cancels it on
\* SIGINT): gather cancels every task that is not done. CancelledError is no
\* Exception, so a task inside `async with sem:` skips the except branch, runs the
\* finally block and releases its permit; a task waiting for the limiter or the
\* semaphore just ends. No slot is assigned. The main coroutine catches
\* CancelledError and returns results; asyncio.run closes the loop. An executor
\* thread cannot be cancelled and keeps running.
CancelTasks ==
    /\ pc' = [i \in Tasks |-> IF pc[i] \in {"limiter", "sem", "running"}
                                THEN "cancelled" ELSE pc[i]]
    /\ completed' = completed + Cardinality(Running)
    /\ sem' = sem + Cardinality(Running)
    /\ call' = [i \in Tasks |-> FALSE]
    /\ orphan' = [i \in Tasks |-> orphan[i] \/ (~is_coro /\ call[i])]
    /\ events' = [i \in Tasks |-> IF pc[i] = "running" THEN events[i] \o CancelEvents
                                   ELSE events[i]]
    /\ pushed' = pushed \o Updates(completed, Cardinality(Running))
    /\ UNCHANGED <<argVars, level, results, attempts, raised, produced, timedOut,
                   writers, overtaken, ret, clockVars, fnVars, srvVars, extVars>>

Cancel ==
    /\ callPc = "gather"
    /\ fault = "none"
    /\ callPc' = "shutdown"
    /\ fault' = "cancel"
    /\ CancelTasks

NextCancel == Next \/ Cancel

CancelSpec == Init /\ [][NextCancel]_vars

\* ---- Errors outside process_func ----

\* progress.update raises in the finally block of `one`, after the slot assignment
\* and the increment; `async with sem` releases the permit on the way out and the
\* exception ends the task and is set on the gather future.
UpdateRaises(i) ==
    /\ callPc = "gather"
    /\ pc[i] = "running"
    /\ call[i]
    /\ UpdateDue(Increment(completed))
    /\ call' = [call EXCEPT ![i] = FALSE]
    /\ \/ \E v \in ReturnValues(items[i]) :
             /\ produced' = [produced EXCEPT ![i] = v]
             /\ raised' = raised
             /\ Finish(i, v, TRUE)
       \/ /\ stop_after_attempt(attempts[i], MaxAttempts(max_retries))
          /\ raised' = [raised EXCEPT ![i] = @ + 1]
          /\ produced' = produced
          /\ Finish(i, FailureValue, FALSE)
    /\ fault' = "task"
    /\ UNCHANGED <<callPc, argVars, level, attempts, orphan, timedOut, ret, now, startedAt, fnVars, srvVars, extVars>>

\* `async with limiter` raises (AsyncLimiter.acquire raises ValueError for a rate
\* below 1): the task ends before the try statement, with no slot assigned and no
\* increment, and the exception is set on the gather future.
LimiterRaises(i) ==
    /\ callPc = "gather"
    /\ pc[i] = "limiter"
    /\ pc' = [pc EXCEPT ![i] = "crashed"]
    /\ fault' = "task"
    /\ UNCHANGED <<callPc, argVars, sem, level, results, completed, attempts, call,
                   orphan, raised, produced, timedOut, histVars, ret, clockVars, fnVars, srvVars, extVars>>

\* The main coroutine wakes up with the exception of gather: `except Exception`
\* logs it and results is returned; asyncio.run cancels the tasks still pending.
GatherRaises ==
    /\ callPc = "gather"
    /\ fault = "task"
    /\ callPc' = "shutdown"
    /\ fault' = fault
    /\ CancelTasks

\* `with progress:` raises when the display is started (rich allows one live
\* display per console): the statement encloses the try, so the exception leaves
\* _async_process_all before any task has run; asyncio.run cancels the tasks and
\* raises it.
DisplayRaises ==
    /\ callPc = "gather"
    /\ fault = "none"
    /\ level = 0
    /\ \A i \in Tasks : pc[i] = IF LimiterPresent(rate) THEN "limiter" ELSE "sem"
    /\ callPc' = "returned"
    /\ fault' = "display"
    /\ pc' = [i \in Tasks |-> "cancelled"]
    /\ \E in_loop \in BOOLEAN : ret' = run_asyncio(in_loop, Raises)
    /\ UNCHANGED <<argVars, sem, level, results, completed, attempts, call, orphan,
                   raised, produced, timedOut, histVars, clockVars, fnVars, srvVars, extVars>>

NextError ==
    \/ Next
    \/ \E i \in Tasks : UpdateRaises(i)
    \/ \E i \in Tasks : LimiterRaises(i)
    \/ GatherRaises
    \/ DisplayRaises

ErrorSpec == Init /\ [][NextError]_vars

\* ---- Release server: version numbers (utils/version.py) ----

\* A string is the sequence of its characters.
Digits == <<"0", "1", "2", "3", "4", "5", "6", "7", "8", "9">>
IsDigit(c) == \E d \in 1..10 : Digits[d] = c
DigitValue(c) == (CHOOSE d \in 1..10 : Digits[d] = c) - 1

\* version.lstrip("v")
RECURSIVE lstrip_v(_)
lstrip_v(s) == IF s # <<>> /\ Head(s) = "v" THEN lstrip_v(Tail(s)) ELSE s

\* s.split(sep)
RECURSIVE split(_, _)
split(s, sep) ==
    IF \A k \in 1..Len(s) : s[k] # sep THEN <<s>>
    ELSE LET k == CHOOSE k \in 1..Len(s) : s[k] = sep /\ \A j \in 1..(k - 1) : s[j] # sep
         IN  <<SubSeq(s, 1, k - 1)>> \o split(SubSeq(s, k + 1, Len(s)), sep)

\* int(p) for the strings the model uses: decimal digits, or else a ValueError.
ValueError == <<"ValueError">>
RECURSIVE digits_value(_)
digits_value(p) ==
    IF p = <<>> THEN 0
    ELSE 10 * digits_value(SubSeq(p, 1, Len(p) - 1)) + DigitValue(p[Len(p)])
int(p) ==
    IF p # <<>> /\ \A k \in 1..Len(p) : IsDigit(p[k]) THEN Int_(digits_value(p))
    ELSE ValueError

version_tuple(version) ==
    LET clean_version == split(lstrip_v(version), "-")[1]
        parts == split(clean_version, ".")
    IN  IF \E k \in 1..Len(parts) : int(parts[k]) = ValueError THEN <<0, 0, 0>>
        ELSE [k \in 1..Len(parts) |-> int(parts[k])[2]]

\* t1 < t2 on Python tuples of ints.
tuple_less(t1, t2) ==
    \/ \E k \in 1..Min(Len(t1), Len(t2)) :
          t1[k] < t2[k] /\ \A j \in 1..(k - 1) : t1[j] = t2[j]
    \/ Len(t1) < Len(t2) /\ \A j \in 1..Len(t1) : t1[j] = t2[j]

compare_versions(v1, v2) ==
    LET t1 == version_tuple(v1)
        t2 == version_tuple(v2)
    IN  IF tuple_less(t1, t2) THEN -1 ELSE IF tuple_less(t2, t1) THEN 1 ELSE 0

\* ---- Release server: update checks ----

\* The versions of the releases ("1.9", "1.10", "v1.10-b") and of the clients
\* ("1.9", "v1.10", "1", "x"), the platforms, and the beta keys clients send.
ReleaseVersionList ==
    << <<"1", ".", "9">>, <<"1", ".", "1", "0">>, <<"v", "1", ".", "1", "0", "-", "b">> >>
ClientVersions ==
    { <<"1", ".", "9">>, <<"v", "1", ".", "1", "0">>, <<"1">>, <<"x">> }
PairList == << <<"darwin", "x86_64">>, <<"darwin", "aarch64">>, <<"linux", "x86_64">> >>
ReleaseVersions == {ReleaseVersionList[k] : k \in 1..Len(ReleaseVersionList)}
Pairs == {PairList[k] : k \in 1..Len(PairList)}
BETA_ACCESS_KEYS == {"geo-scope-beta-2025"}
BetaKeys == {"", "guess", "geo-scope-beta-2025"}
MaxReleases == 2
MaxBuilds == 2

\* What an upload of revision rev for a release and platform carries.
Artifact(version, target, arch, rev) ==
    [url |-> <<"url", version, target, arch, rev>>,
     signature |-> <<"sig", version, target, arch, rev>>,
     size |-> rev,
     sha256 |-> <<"sha256", version, target, arch, rev>>]

\* A row of table builds; the release is named by its (unique) version.
BuildRow(id, version, target, arch, art) ==
    [id |-> id, version |-> version, target |-> target, arch |-> arch,
     url |-> art.url, signature |-> art.signature, size |-> art.size,
     sha256 |-> art.sha256]

ReleaseRows == [version : ReleaseVersions, is_active : BOOLEAN, is_prerelease : BOOLEAN]

\* The tables the update endpoints are asked about: at most MaxReleases releases
\* of distinct versions and at most MaxBuilds builds, one per release and platform.
ReleaseTables ==
    {T \in SUBSET ReleaseRows :
        /\ Cardinality(T) <= MaxReleases
        /\ \A r, q \in T : r.version = q.version => r = q}
BuildTables(T) ==
    LET slots == {<<v, p>> \in (1..Len(ReleaseVersionList)) \X (1..Len(PairList)) :
                    \E r \in T : r.version = ReleaseVersionList[v]}
    IN  {{BuildRow((sl[1] - 1) * Len(PairList) + sl[2], ReleaseVersionList[sl[1]],
                   PairList[sl[2]][1], PairList[sl[2]][2],
                   Artifact(ReleaseVersionList[sl[1]], PairList[sl[2]][1],
                            PairList[sl[2]][2], 1)) : sl \in S} :
            S \in {S \in SUBSET slots : Cardinality(S) <= MaxBuilds}}

UpdateInit ==
    /\ InitProcessor
    /\ releases \in ReleaseTables
    /\ builds \in BuildTables(releases)
    /\ nextId = 1 + Len(ReleaseVersionList) * Len(PairList)
    /\ threads = <<>>
    /\ reply = <<>>
    /\ InitSummary

\* Faulty variant: the sort is ascending.
SortedLast(rs) ==
    {r \in rs : \A q \in rs : ~tuple_less(version_tuple(q.version), version_tuple(r.version))}

\* sorted(releases, key=version_tuple, reverse=True)[0]: a release of the greatest
\* version tuple (the query's order decides among equal ones).
SortedFirst(rs) ==
    {r \in rs : \A q \in rs : ~tuple_less(version_tuple(r.version), version_tuple(q.version))}

\* ReleaseService.get_latest: the releases it may return (none: it returns None).
get_latest(include_prerelease) ==
    SortedFirst({r \in releases :
                    r.is_active /\ (include_prerelease \/ ~r.is_prerelease)})

NoUpdate == [kind |-> "none"]

\* UpdateService.check_update: what it may return.
check_update(current_version, target, arch, include_prerelease) ==
    LET latests == get_latest(include_prerelease)
    IN  IF latests = {} THEN {NoUpdate}
        ELSE UNION {
            IF compare_versions(current_version, latest.version) >= 0 THEN {NoUpdate}
            ELSE LET matching == {b \in builds : /\ b.version = latest.version
                                                  /\ b.target = target
                                                  /\ b.arch = arch}
                 IN  IF matching = {} THEN {NoUpdate}
                     ELSE {[kind |-> "update", version |-> latest.version,
                            url |-> build.url, signature |-> build.signature] :
                                build \in matching} : latest \in latests}

\* UpdateService.get_latest_version_info
get_latest_version_info(include_prerelease) ==
    LET latests == get_latest(include_prerelease)
    IN  IF latests = {} THEN {NoUpdate}
        ELSE {[kind |-> "info", version |-> latest.version,
               is_prerelease |-> latest.is_prerelease,
               platforms |-> {<<b.target, b.arch>> : b \in
                                 {b \in builds : b.version = latest.version}}] :
                  latest \in latests}

\* Faulty variant: every key that is not empty is accepted.
ValidateAnyKey(beta_key) == beta_key # ""

\* UpdateService.validate_beta_key
validate_beta_key(beta_key) ==
    IF beta_key = "" THEN FALSE ELSE beta_key \in BETA_ACCESS_KEYS

Unauthorized == [kind |-> "error", detail |-> "Invalid beta key"]

Answer(endpoint, request, status, body) ==
    /\ reply' = [endpoint |-> endpoint, request |-> request, status |-> status,
                 body |-> body]
    /\ UNCHANGED <<callPc, argVars, sem, level, results, completed, taskVars, histVars,
                   ret, fault, clockVars, fnVars, extVars, releases, builds, nextId, threads>>

\* GET /api/update/check
CheckUpdateEndpoint(version, target, arch) ==
    /\ reply = <<>>
    /\ \E result \in check_update(version, target, arch, FALSE) :
          Answer("/api/update/check",
                 [version |-> version, target |-> target, arch |-> arch, beta_key |-> ""],
                 IF result = NoUpdate THEN 204 ELSE 200, result)

\* GET /api/update/latest
GetLatestVersion ==
    /\ reply = <<>>
    /\ \E info \in get_latest_version_info(FALSE) :
          Answer("/api/update/latest", [beta_key |-> ""], 200, info)

\* GET /api/update/beta/check
CheckBetaUpdate(version, target, arch, beta_key) ==
    /\ reply = <<>>
    /\ LET request == [version |-> version, target |-> target, arch |-> arch,
                       beta_key |-> beta_key]
       IN  IF ~validate_beta_key(beta_key)
           THEN Answer("/api/update/beta/check", request, 401, Unauthorized)
           ELSE \E result \in check_update(version, target, arch, TRUE) :
                   Answer("/api/update/beta/check", request,
                          IF result = NoUpdate THEN 204 ELSE 200, result)

\* GET /api/update/beta/latest
GetLatestBetaVersion(beta_key) ==
    /\ reply = <<>>
    /\ IF ~validate_beta_key(beta_key)
       THEN Answer("/api/update/beta/latest", [beta_key |-> beta_key], 401, Unauthorized)
       ELSE \E info \in get_latest_version_info(TRUE) :
               Answer("/api/update/beta/latest", [beta_key |-> beta_key], 200, info)

NextUpdate ==
    \/ \E v \in ClientVersions, p \in Pairs : CheckUpdateEndpoint(v, p[1], p[2])
    \/ GetLatestVersion
    \/ \E v \in ClientVersions, p \in Pairs, k \in BetaKeys :
          CheckBetaUpdate(v, p[1], p[2], k)
    \/ \E k \in BetaKeys : GetLatestBetaVersion(k)

UpdateSpec == UpdateInit /\ [][NextUpdate]_vars

\* ---- Release server: builds ----

\* The request threads of the server (FastAPI runs the synchronous endpoints in a
\* thread pool), the versions and revisions they upload, and a cap on the builds
\* inserted in a run.
Threads == {"t1", "t2"}
BuildVersions == {ReleaseVersionList[1], ReleaseVersionList[2]}
Revisions == {1, 2}
MaxBuildRows == 2

Idle == [op |-> "idle"]

\* One release, "1.9", and no build.
BuildInit ==
    /\ InitProcessor
    /\ releases = {[version |-> ReleaseVersionList[1], is_active |-> TRUE,
                    is_prerelease |-> FALSE]}
    /\ builds = {}
    /\ nextId = 1
    /\ threads = [t \in Threads |-> Idle]
    /\ reply = <<>>
    /\ InitSummary

\* session.query(Build).filter(release_id, target, arch).first(): the id of a
\* matching row, 0 for None.
FirstBuild(version, target, arch) ==
    LET matching == {b \in builds : b.version = version /\ b.target = target
                                     /\ b.arch = arch}
    IN  IF matching = {} THEN {0} ELSE {b.id : b \in matching}

BuildUnchanged ==
    UNCHANGED <<callPc, argVars, sem, level, results, completed, taskVars, histVars,
                ret, fault, clockVars, fnVars, extVars, releases, reply>>

\* add_build up to the query for the existing build: the reads of a session are
\* not in a transaction (pysqlite begins one at the first INSERT, UPDATE or DELETE).
\* For a version without a release add_build returns None.
AddBuildQuery(t, version, target, arch, rev) ==
    /\ threads[t].op = "idle"
    /\ nextId <= MaxBuildRows
    /\ IF \A r \in releases : r.version # version
       THEN threads' = [threads EXCEPT ![t] = [op |-> "idle", returned |-> "None"]]
       ELSE \E existing \in FirstBuild(version, target, arch) :
               threads' = [threads EXCEPT ![t] =
                              [op |-> "add", version |-> version, target |-> target,
                               arch |-> arch, rev |-> rev, existing |-> existing]]
    /\ UNCHANGED <<builds, nextId>>
    /\ BuildUnchanged

\* add_build from session.flush() to the commit: the UPDATE of the existing row
\* (which matches no row, and the session rolls back, when the row is gone) or the
\* INSERT of a new one.
AddBuildFlush(t) ==
    /\ threads[t].op = "add"
    /\ LET a == threads[t]
           art == Artifact(a.version, a.target, a.arch, a.rev)
       IN  IF a.existing # 0
           THEN /\ builds' = {IF b.id = a.existing
                              THEN BuildRow(b.id, b.version, b.target, b.arch, art)
                              ELSE b : b \in builds}
                /\ nextId' = nextId
           ELSE /\ builds' = builds \cup
                                {BuildRow(nextId, a.version, a.target, a.arch, art)}
                /\ nextId' = nextId + 1
    /\ threads' = [threads EXCEPT ![t] = [op |-> "idle", returned |-> "Release"]]
    /\ BuildUnchanged

\* remove_build up to the query for the build.
RemoveBuildQuery(t, version, target, arch) ==
    /\ threads[t].op = "idle"
    /\ IF \A r \in releases : r.version # version
       THEN threads' = [threads EXCEPT ![t] = [op |-> "idle", returned |-> "None"]]
       ELSE \E existing \in FirstBuild(version, target, arch) :
               threads' = [threads EXCEPT ![t] =
                              [op |-> "remove", existing |-> existing]]
    /\ UNCHANGED <<builds, nextId>>
    /\ BuildUnchanged

\* remove_build from session.flush() to the commit: the DELETE of the row found.
RemoveBuildFlush(t) ==
    /\ threads[t].op = "remove"
    /\ builds' = {b \in builds : b.id # threads[t].existing}
    /\ threads' = [threads EXCEPT ![t] = [op |-> "idle", returned |-> "Release"]]
    /\ UNCHANGED nextId
    /\ BuildUnchanged

NextBuild ==
    \/ \E t \in Threads, v \in BuildVersions, p \in Pairs, rev \in Revisions :
          AddBuildQuery(t, v, p[1], p[2], rev)
    \/ \E t \in Threads : AddBuildFlush(t)
    \/ \E t \in Threads, v \in BuildVersions, p \in Pairs :
          RemoveBuildQuery(t, v, p[1], p[2])
    \/ \E t \in Threads : RemoveBuildFlush(t)

BuildSpec == BuildInit /\ [][NextBuild]_vars

\* ---- Release server: the summary agent (core/agents/summary/summary_agent.py) ----

\* The summaries save_to_database is given, all for one version. A changelog entry
\* of a summary carries a commit hash or none ("" stands for a missing, a None and
\* an empty commit_hash, which Python all takes for false). A text of the notes is
\* a sequence of pieces, a text of the detail a sequence of lines, and a line is
\* <<"## ", rest>> when it starts a section and <<"", rest>> otherwise.
CommitHashes == {"", "a1b2c3d", "e4f5a6b"}
MaxEntries == 2
MaxSaves == 3

EntryLists ==
    UNION {[1..n -> [commit_hash : CommitHashes]] : n \in 0..MaxEntries}

SummaryTexts ==
    { [notes |-> [en |-> <<"Fixes">>],
       detail |-> [en |-> << <<"", "# v0.18.0">>, <<"## ", "Fixes">>, <<"", "- a">> >>]],
      [notes |-> [en |-> <<"Features">>, zh |-> <<"Xin">>],
       detail |-> [en |-> << <<"", "# v0.18.0">>, <<"", "- b">> >>]] }

Summaries ==
    {[date |-> "2025-01-01", notes |-> t.notes, detail |-> t.detail, changelogs |-> c] :
        t \in SummaryTexts, c \in EntryLists}

\* d.get(lang, "")
GetText(d, lang) == IF lang \in DOMAIN d THEN d[lang] ELSE <<>>

_merge_notes(old_notes, new_notes) ==
    [lang \in DOMAIN old_notes \cup DOMAIN new_notes |->
        LET old_text == GetText(old_notes, lang)
            new_text == GetText(new_notes, lang)
        IN  IF old_text # <<>> /\ new_text # <<>> /\ old_text # new_text
            THEN old_text \o <<"; ">> \o new_text
            ELSE IF new_text # <<>> THEN new_text ELSE old_text]

_merge_detail(old_detail, new_detail) ==
    [lang \in DOMAIN old_detail \cup DOMAIN new_detail |->
        LET old_text == GetText(old_detail, lang)
            new_lines == GetText(new_detail, lang)
            sections == {i \in 1..Len(new_lines) : new_lines[i][1] = "## "}
            content_start == IF sections = {} THEN 1
                             ELSE CHOOSE i \in sections : \A j \in sections : i <= j
            new_content == SubSeq(new_lines, content_start, Len(new_lines))
        IN  IF old_text # <<>> /\ new_lines # <<>>
            THEN IF new_content # <<>> THEN old_text \o new_content ELSE old_text
            ELSE IF new_lines # <<>> THEN new_lines ELSE old_text]

\* `if commit_hash and commit_hash in existing_hashes: continue`
SkipDuplicate(commit_hash, existing_hashes) ==
    commit_hash # "" /\ commit_hash \in existing_hashes

\* save_to_database(summary) in one session: the release exists and the entries
\* whose hash is not among the stored ones are appended (the set of stored hashes is
\* read once, before the loop), notes and detail being merged when an entry was
\* added; or the release is created with every entry of the summary.
save_to_database(summary) ==
    /\ Len(saves) < MaxSaves
    /\ saves' = Append(saves, summary)
    /\ IF release # NoRelease
       THEN LET existing_hashes ==
                    {changelogs[k].commit_hash : k \in 1..Len(changelogs)} \ {""}
                max_order ==
                    IF changelogs = <<>> THEN -1
                    ELSE CHOOSE o \in {changelogs[k].order : k \in 1..Len(changelogs)} :
                            \A k \in 1..Len(changelogs) : changelogs[k].order <= o
                Kept(cl_data) == ~SkipDuplicate(cl_data.commit_hash, existing_hashes)
                kept == SelectSeq(summary.changelogs, Kept)
                new_changelogs ==
                    [k \in 1..Len(kept) |->
                        [commit_hash |-> kept[k].commit_hash, order |-> max_order + k]]
            IN  /\ changelogs' = changelogs \o new_changelogs
                /\ release' =
                      [pub_date |-> summary.date,
                       notes |-> IF new_changelogs # <<>>
                                 THEN _merge_notes(release.notes, summary.notes)
                                 ELSE release.notes,
                       detail |-> IF new_changelogs # <<>>
                                  THEN _merge_detail(release.detail, summary.detail)
                                  ELSE release.detail]
       ELSE /\ release' = [pub_date |-> summary.date, notes |-> summary.notes,
                           detail |-> summary.detail]
            /\ changelogs' = [k \in 1..Len(summary.changelogs) |->
                                [commit_hash |-> summary.changelogs[k].commit_hash,
                                 order |-> k - 1]]
    /\ UNCHANGED <<callPc, argVars, sem, level, results, completed, taskVars, histVars,
                   ret, fault, clockVars, fnVars, srvVars>>

NextSave == \E summary \in Summaries : save_to_database(summary)

SaveSpec == Init /\ [][NextSave]_vars

\* The event loop runs every task that is ready, fires every timer that is due and
\* time goes on; asyncio.run returns once the executor threads are joined. Nothing
\* obliges process_func to return (Return, Raise, OrphanFinish), the caller to call
\* (ParallelProcess), or the build to have a join deadline (JoinDeadline).
Fairness ==
    /\ WF_vars(\E i \in Tasks : AcquireLimiter(i))
    /\ WF_vars(Leak)
    /\ WF_vars(\E i \in Tasks : AcquireSem(i))
    /\ \A i \in 1..MaxItems : WF_vars(i \in Tasks /\ Invoke(i))
    /\ \A i \in 1..MaxItems : WF_vars(i \in Tasks /\ Timeout(i))
    /\ WF_vars(GatherDone)
    /\ WF_vars(RunReturns)

FairSpec == Spec /\ Fairness

FairCancelSpec == CancelSpec /\ Fairness

\* Every invocation of process_func returns or raises in the end: the one a task
\* awaits, and the one left running in an executor thread after a timeout.
ProcessFuncEnds ==
    /\ \A i \in 1..MaxItems :
          WF_vars(i \in Tasks /\ (Raise(i) \/ \E v \in ReturnValues(items[i]) : Return(i, v)))
    /\ \A i \in 1..MaxItems : WF_vars(i \in Tasks /\ OrphanFinish(i))

LiveSpec == FairSpec /\ ProcessFuncEnds

\* ---- Claims ----

Returned == callPc = "returned" /\ items # <<>>
Failed(i) == pc[i] = "failed"
Succeeded(i) == pc[i] = "succeeded"

\* C1: when parallel_process returns for a non-empty list, entry i of the result is
\* the value process_func produced for items[i], or None when item i failed; it is
\* never a value produced for another index, whatever order the tasks finished in.
C1_OrderPreserved ==
    Returned =>
        /\ ret.kind = "list"
        /\ Len(ret.value) = Len(items)
        /\ \A i \in Tasks :
              /\ ret.value[i] = (IF Succeeded(i) THEN produced[i] ELSE None)
              /\ ret.value[i] \in ReturnValues(items[i])

\* Two items, the second finished first, and each entry is its own item's value.
C1_Witness ==
    /\ Returned
    /\ Len(items) >= 2
    /\ overtaken
    /\ \A i \in Tasks : ret.value[i] = ValueOf(items[i])

\* C2: whatever items fail for good (retries exhausted, timed out), the call does
\* not raise and returns a list as long as items.
C2_SameLengthList ==
    callPc = "returned" => (ret.kind = "list" /\ Len(ret.value) = Len(items))

\* Returned with one item out of retries and another timed out.
C2_Witness ==
    /\ Returned
    /\ \E i, j \in Tasks :
          /\ Failed(i) /\ timedOut[i]
          /\ Failed(j) /\ ~timedOut[j]
    /\ ret.kind = "list"

\* C3: with workers = k >= 1, at most k items are RUNNING (hold the gate) at once.
C3_ConcurrencyBound ==
    callPc # "idle" => (workers >= 1 /\ Cardinality(Running) <= workers)

\* The gate is full and an item waits for it.
C3_Witness ==
    /\ callPc = "gather"
    /\ Cardinality(Running) = workers
    /\ \E i \in Tasks : pc[i] = "sem"

\* C4: process_func is invoked on an item at most max_retries + 1 times; an item whose
\* every invocation raises, and whose timeout does not expire, is invoked exactly
\* max_retries + 1 times, and is FAILED exactly from the last raise on.
C4_AttemptsBounded ==
    \A i \in Tasks :
        /\ attempts[i] <= max_retries + 1
        /\ (Failed(i) /\ ~timedOut[i]) =>
              (attempts[i] = max_retries + 1 /\ raised[i] = attempts[i])
        /\ (~timedOut[i] /\ raised[i] < max_retries + 1) => ~Failed(i)
        /\ raised[i] = max_retries + 1 => Failed(i)

\* An item failed after max_retries + 1 raising invocations, with retries allowed.
C4_Witness ==
    \E i \in Tasks :
        /\ max_retries >= 1
        /\ Failed(i) /\ ~timedOut[i]
        /\ attempts[i] = max_retries + 1
        /\ raised[i] = max_retries + 1

\* C5: an item whose process_func raised on its first max_retries attempts and returned
\* v on attempt max_retries + 1, its timeout not expiring, is SUCCEEDED with v in its
\* slot; in particular max_retries raises do not make it FAILED.
C5_RetryThenSucceed ==
    \A i \in Tasks :
        (~timedOut[i] /\ raised[i] = max_retries) =>
            /\ ~Failed(i)
            /\ (attempts[i] = max_retries + 1 /\ ~call[i]) =>
                  (Succeeded(i) /\ results[i] = produced[i] /\ produced[i] # NoValue)

\* An item that raised max_retries >= 1 times and then returned its value.
C5_Witness ==
    \E i \in Tasks :
        /\ max_retries >= 1
        /\ raised[i] = max_retries
        /\ attempts[i] = max_retries + 1
        /\ Succeeded(i)
        /\ results[i] = ValueOf(items[i])
        /\ results[i] # None

C8_ProgressCounter ==
    /\ [][/\ completed' >= completed
          /\ completed' - completed =
                Cardinality({i \in 1..Len(items') : pc'[i] \in {"succeeded", "failed"}})
                - Cardinality({i \in Tasks : Terminal(i)})
          /\ completed' - completed <= 1]_vars
    /\ [](completed = Cardinality({i \in Tasks : Terminal(i)}))
    /\ [](callPc = "returned" => completed = Len(items))

\* Returned with a succeeded and a failed item counted.
C8_Witness ==
    /\ Returned
    /\ completed = Len(items)
    /\ \E i, j \in Tasks : Succeeded(i) /\ Failed(j)

\* C9: no slot is ever assigned twice or by the task of another index, and once all
\* items are terminal every slot has been assigned exactly once, by its own task.
C9_SlotWrittenOnce ==
    /\ \A s \in 1..Len(writers) :
          /\ Len(writers[s]) <= 1
          /\ \A k \in 1..Len(writers[s]) : writers[s][k] = s
          /\ (s \in Tasks /\ Terminal(s)) <=> writers[s] = <<s>>
    /\ Len(writers) = Len(items)
    /\ callPc \in {"shutdown", "returned"} => \A s \in Tasks : writers[s] = <<s>>

\* Returned: two items or more, not finished in index order, one of them failed, and
\* every slot assigned once by its own task.
C9_Witness ==
    /\ Returned
    /\ Len(items) >= 2
    /\ overtaken
    /\ \A s \in Tasks : writers[s] = <<s>>
    /\ \E i \in Tasks : Failed(i)

C7_TimeoutNeverBlocks ==
    /\ [](\A i \in Tasks : timedOut[i] => results[i] = None)
    /\ (\E i \in Tasks : timedOut[i]) ~> (callPc = "returned")

Cancelled(i) == pc[i] = "cancelled"

\* C11: once the outer scope has cancelled the call with items PENDING or RUNNING,
\* the call terminates without waiting for what is unfinished, and the list it
\* returns has len(items) entries, None in every slot not assigned before.
C11_CancelTerminates ==
    /\ [](callPc = "returned" /\ fault = "cancel" =>
            /\ ret.kind = "list"
            /\ Len(ret.value) = Len(items)
            /\ \A i \in Tasks : ret.value[i] = IF Succeeded(i) THEN produced[i] ELSE None)
    /\ (fault = "cancel" /\ \E i \in Tasks : Cancelled(i)) ~> (callPc = "returned")

\* C12: when something other than process_func raises (the progress display, the
\* rate limiter), parallel_process does not raise: it returns a list of len(items)
\* entries in which every slot assigned before the error keeps its value.
C12_OrchestrationErrorReturnsList ==
    callPc = "returned" /\ fault \in {"task", "display"} =>
        /\ ret.kind = "list"
        /\ Len(ret.value) = Len(items)
        /\ \A i \in Tasks : ret.value[i] = IF Succeeded(i) THEN produced[i] ELSE None

\* C13: with a rate limit r, only the first item gets a permit at once and the n-th
\* item to start does so no earlier than (n - 1) / r seconds after the call began
\* (n - 1 periods); with r = 2 the tenth item starts no earlier than 4.5 seconds
\* (9 periods) after the first.
C13_StartsSpacedByRate ==
    /\ \A n \in 1..Len(startedAt) : startedAt[n] >= n - 1
    /\ rate = 2 /\ Len(startedAt) >= 10 => startedAt[10] - startedAt[1] >= 9

Batches == fnOut
Indices(k) == Batches[k][1]
BatchItemsOf(k) == Batches[k][2]

\* C14: for every items list and batch_size >= 1 the batches of create_batches are
\* non-empty, contiguous, disjoint, in increasing index order, and cover exactly
\* 0..len(items)-1, the k-th item of a batch being items[its k-th index]; so
\* flattening them gives items back, whatever the batch_size.
C14_BatchesPartitionItems ==
    fnCall = "create_batches" =>
        LET its == fnArgs.items
        IN  /\ \A k \in 1..Len(Batches) :
                  /\ Indices(k) # <<>>
                  /\ Len(BatchItemsOf(k)) = Len(Indices(k))
                  /\ Indices(k)[1] = IF k = 1 THEN 0
                                     ELSE Indices(k - 1)[Len(Indices(k - 1))] + 1
                  /\ \A j \in 1..Len(Indices(k)) :
                        /\ j > 1 => Indices(k)[j] = Indices(k)[j - 1] + 1
                        /\ BatchItemsOf(k)[j] = its[Indices(k)[j] + 1]
            /\ (Batches = <<>>) = (its = <<>>)
            /\ Batches # <<>> =>
                  Indices(Len(Batches))[Len(Indices(Len(Batches)))] = Len(its) - 1
            /\ flat_items(Batches) = its

C14_Witness ==
    /\ fnCall = "create_batches"
    /\ Len(Batches) >= 3
    /\ Len(Indices(Len(Batches))) < Len(Indices(1))
    /\ Indices(2)[1] = Len(Indices(1))

\* C15: the effective batch size is max(b, total div 50) above 1000 items,
\* max(1, total div 4) below 50, and b from 50 to 1000; every batch but the last has
\* that many items, the last between 1 and that many. 2000 items with b = 20 give
\* batches of 40, 10 items with b = 20 batches of 2.
C15_EffectiveBatchSize ==
    fnCall = "create_batches" =>
        LET total == Len(fnArgs.items)
            b == fnArgs.batch_size
            size == IF total > 1000 THEN Max(b, total \div 50)
                    ELSE IF total < 50 THEN Max(1, total \div 4)
                    ELSE b
        IN  /\ \A k \in 1..Len(Batches) :
                  IF k < Len(Batches) THEN Len(BatchItemsOf(k)) = size
                  ELSE Len(BatchItemsOf(k)) \in 1..size
            /\ total = 2000 /\ b = 20 => \A k \in 1..Len(Batches) : Len(BatchItemsOf(k)) = 40
            /\ total = 10 /\ b = 20 => \A k \in 1..Len(Batches) : Len(BatchItemsOf(k)) = 2

C15_Witness ==
    /\ fnCall = "create_batches"
    /\ Len(fnArgs.items) = 2000
    /\ fnArgs.batch_size = 20
    /\ Len(Batches) = 50
    /\ Len(BatchItemsOf(1)) = 40

\* C16: determine_worker_count(w) is w for an explicit w >= 1, 1 for an explicit
\* w <= 0, and min(2 * cpu_count, 128) for no w (cpu_count being 4 when the machine
\* reports none); it is at least 1, and so is the semaphore built from it.
C16_WorkerCount ==
    fnCall = "determine_worker_count" =>
        LET w == fnArgs.workers
            cpu == IF fnArgs.cpu_count = None THEN 4 ELSE fnArgs.cpu_count[2]
        IN  /\ w = None => fnOut = Min(2 * cpu, 128)
            /\ w # None /\ w[2] >= 1 => fnOut = w[2]
            /\ w # None /\ w[2] <= 0 => fnOut = 1
            /\ fnOut >= 1
            /\ NewSemaphore(fnOut) >= 1

C16_Witness ==
    /\ fnCall = "determine_worker_count"
    /\ fnArgs.workers = Int_(-3)
    /\ fnOut = 1

\* C17: parallel_process([], f) returns the empty list; no task is created, f is
\* never invoked and the semaphore is never built or acquired.
C17_EmptyInput ==
    callPc = "returned" /\ items = <<>> =>
        /\ ret = ReturnsList(<<>>)
        /\ pc = <<>>
        /\ attempts = <<>>
        /\ call = <<>>
        /\ startedAt = <<>>
        /\ sem = 0
        /\ completed = 0

C17_Witness == callPc = "returned" /\ items = <<>> /\ ret.kind = "list"

CheckEndpoints == {"/api/update/check", "/api/update/beta/check"}
BetaEndpoints == {"/api/update/beta/check", "/api/update/beta/latest"}
Answered == reply # <<>>

\* The releases of the channel a check was made on: the active ones, prereleases
\* only on the beta channel.
Channel ==
    {r \in releases : r.is_active /\ (reply.endpoint \in BetaEndpoints \/ ~r.is_prerelease)}
Older(v1, v2) == tuple_less(version_tuple(v1), version_tuple(v2))

\* C18: check_update returns None whenever current_version is not strictly older
\* than the latest release of the channel; an update it returns has the greatest
\* version tuple among the active releases of the channel, is strictly newer than
\* current_version, and carries the url and signature of a build of that release
\* whose target and arch are the requested ones.
C18_UpdateIsLatestMatchingBuild ==
    Answered /\ reply.endpoint \in CheckEndpoints /\ reply.status # 401 =>
        LET request == reply.request
            update == reply.body
        IN  /\ (\A r \in Channel : ~Older(request.version, r.version)) =>
                  update = NoUpdate
            /\ update # NoUpdate =>
                  \E r \in Channel :
                      /\ r.version = update.version
                      /\ \A q \in Channel : ~Older(r.version, q.version)
                      /\ Older(request.version, r.version)
                      /\ \E b \in builds :
                            /\ b.version = r.version
                            /\ b.target = request.target
                            /\ b.arch = request.arch
                            /\ b.url = update.url
                            /\ b.signature = update.signature

\* "1.9" is offered "1.10", the newer of two releases, in its build for the
\* requested platform, the release having another build as well.
C18_Witness ==
    /\ Answered
    /\ reply.endpoint = "/api/update/check"
    /\ reply.request.version = <<"1", ".", "9">>
    /\ reply.body # NoUpdate
    /\ reply.body.version = <<"1", ".", "1", "0">>
    /\ Cardinality(Channel) = 2
    /\ Cardinality({b \in builds : b.version = reply.body.version}) = 2

\* C19: /api/update/check and /api/update/latest never answer with a release whose
\* is_prerelease is true, and the beta endpoints answer a key that is empty or not
\* in BETA_ACCESS_KEYS with 401 and no release data, whatever the tables hold.
C19_NoPrereleaseWithoutKey ==
    Answered =>
        /\ reply.endpoint \notin BetaEndpoints /\ reply.body # NoUpdate =>
              \A r \in releases : r.version = reply.body.version => ~r.is_prerelease
        /\ reply.endpoint = "/api/update/latest" /\ reply.body # NoUpdate =>
              ~reply.body.is_prerelease
        /\ reply.endpoint \in BetaEndpoints
              /\ (reply.request.beta_key = "" \/ reply.request.beta_key \notin BETA_ACCESS_KEYS) =>
                  reply.status = 401 /\ reply.body = Unauthorized

\* A wrong key is refused while an active prerelease is the newest release.
C19_Witness ==
    /\ Answered
    /\ reply.endpoint = "/api/update/beta/check"
    /\ reply.request.beta_key = "guess"
    /\ reply.status = 401
    /\ \E r \in releases :
          /\ r.is_prerelease /\ r.is_active
          /\ Older(reply.request.version, r.version)
          /\ \E b \in builds : /\ b.version = r.version
                                 /\ b.target = reply.request.target
                                 /\ b.arch = reply.request.arch

\* C20: whatever add_build and remove_build calls have run, one after another or
\* interleaved, a release has at most one build per (target, arch); add_build for
\* a pair that has a build updates it instead of adding a second one.
C20_OneBuildPerPlatform ==
    \A b1, b2 \in builds :
        b1.version = b2.version /\ b1.target = b2.target /\ b1.arch = b2.arch =>
            b1.id = b2.id

\* C21: after any sequence of save_to_database calls for one version no two
\* changelog entries of the release carry the same non-empty commit_hash; and
\* saving, a second time, a summary whose entries all carry a commit_hash adds no
\* changelog entry and leaves the notes and the detail of the release as they were.
C21_NoDuplicateCommitHash ==
    /\ [](\A i, j \in 1..Len(changelogs) :
            i # j /\ changelogs[i].commit_hash # "" =>
                changelogs[i].commit_hash # changelogs[j].commit_hash)
    /\ [][saves' # saves =>
            LET summary == saves'[Len(saves')]
            IN  /\ \E k \in 1..Len(saves) : saves[k] = summary
                /\ \A k \in 1..Len(summary.changelogs) :
                      summary.changelogs[k].commit_hash # ""
                => /\ changelogs' = changelogs
                   /\ release'.notes = release.notes
                   /\ release'.detail = release.detail]_vars

\* The place of an event in the order the design gives for one item.
EventRank(e) ==
    CASE e = "permit" -> 1
      [] e = "gate" -> 2
      [] e = "invoke" -> 3
      [] e = "slot" -> 4
      [] e = "release" -> 5
      [] e = "count" -> 6

\* C22: the events of an item occur in the order rate-limit permit acquired (only
\* when a rate limit is set) -> gate acquired -> process invoked -> slot written ->
\* gate released -> counter incremented, each of them but the invocation once; in
\* particular the gate is released before the counter is incremented.
C22_EventOrder ==
    \A i \in 1..Len(events) :
        LET ev == events[i]
        IN  /\ \A k \in 2..Len(ev) :
                  \/ EventRank(ev[k - 1]) < EventRank(ev[k])
                  \/ ev[k - 1] = "invoke" /\ ev[k] = "invoke"
            /\ ev # <<>> => (ev[1] = "permit" <=> LimiterPresent(rate))
            /\ ev # <<>> /\ ~LimiterPresent(rate) => ev[1] = "gate"
            /\ Terminal(i) =>
                  \A e \in {"gate", "invoke", "slot", "release", "count"} :
                      \E k \in 1..Len(ev) : ev[k] = e
            /\ \A k1, k2 \in 1..Len(ev) :
                  ev[k1] = "release" /\ ev[k2] = "count" => k1 < k2

\* The steps an item may take in the design's state machine.
ItemSteps ==
    {<<"PENDING", "RUNNING">>, <<"RUNNING", "SUCCEEDED">>, <<"RUNNING", "FAILED">>}

HoldsGate(i) ==
    /\ Cardinality({k \in 1..Len(events[i]) : events[i][k] = "gate"}) = 1
    /\ \A k \in 1..Len(events[i]) : events[i][k] # "release"

\* C23: the state of an item only moves PENDING -> RUNNING -> SUCCEEDED or FAILED.
\* Every attempt, the retries included, is started in one RUNNING period during
\* which the item holds the gate; a terminal item stays as it is, and the slot of a
\* FAILED item is never assigned again.
C23_ItemStateMachine ==
    /\ [][\A i \in Tasks :
            /\ ItemState(i)' # ItemState(i) => <<ItemState(i), ItemState(i)'>> \in ItemSteps
            /\ attempts'[i] # attempts[i] =>
                  /\ attempts'[i] = attempts[i] + 1
                  /\ ItemState(i)' = "RUNNING"
                  /\ HoldsGate(i)'
            /\ Terminal(i) => /\ pc'[i] = pc[i]
                              /\ attempts'[i] = attempts[i]
            /\ Failed(i) => /\ results'[i] = results[i]
                            /\ writers'[i] = writers[i]]_vars
    /\ [](\A i \in Tasks : ItemState(i) = "RUNNING" <=> (attempts[i] >= 1 /\ HoldsGate(i)))

\* Returned with an item FAILED after a retry and another item SUCCEEDED at its
\* second attempt, one of them having finished before the other started.
C23_Witness ==
    /\ Returned
    /\ \E i, j \in Tasks :
          /\ Failed(i) /\ attempts[i] = 2 /\ results[i] = None
          /\ Succeeded(j) /\ attempts[j] = 2 /\ results[j] = ValueOf(items[j])
    /\ workers = 1

\* C24: if every invocation of process_func returns or raises in the end, every
\* item of a call reaches SUCCEEDED or FAILED, no item stays PENDING, and
\* parallel_process returns, whatever workers, max_retries and batch_size are.
C24_EveryItemTerminates ==
    /\ \A i \in 1..MaxItems :
          (i \in Tasks /\ ItemState(i) = "PENDING") ~> (i \in Tasks /\ Terminal(i))
    /\ (callPc = "gather") ~> (callPc = "returned" /\ \A i \in Tasks : Terminal(i))

\* Returned from a call of two items and one worker, every item having taken a
\* second attempt: the second item was PENDING while the first one retried.
C24_Witness ==
    /\ Returned
    /\ workers = 1
    /\ Len(items) = MaxItems
    /\ \A i \in Tasks : Terminal(i) /\ attempts[i] = 2

\* The batch sizes parallel_process is called with.
CallBatchSizes == {1, 20}

\* The batch (counted from 1) that create_batches puts item i in.
BatchOf(i, batch_size) ==
    LET batches == create_batches(items, batch_size)
    IN  CHOOSE k \in 1..Len(batches) :
            \E j \in 1..Len(batches[k][1]) : batches[k][1][j] = i - 1

C26_ProgressUpdates ==
    /\ [][/\ completed' # completed =>
                /\ completed' = completed + 1
                /\ pushed' = IF completed' % 10 = 0 \/ completed' = Len(items)
                             THEN Append(pushed, completed')
                             ELSE pushed
          /\ pushed' # pushed => pushed' = Append(pushed, completed')]_vars
    /\ [](\A k \in 2..Len(pushed) : pushed[k - 1] <= pushed[k])
    /\ [](Returned => pushed # <<>> /\ pushed[Len(pushed)] = Len(items))

\* Twelve items: the tenth and the twelfth completion push their counter values,
\* and the end of the call pushes the number of items.
C26_Witness ==
    /\ Returned
    /\ Len(items) = 12
    /\ pushed = <<10, 12, 12>>
    /\ \E i \in Tasks : Failed(i)

\* An invocation of process_func for item i is executing: the task awaits it, or an
\* executor thread still runs it.
Executing(i) == call[i] \/ orphan[i]

\* C27: never more than workers invocations of process_func execute at the same
\* moment, a synchronous process_func in a worker thread and an item that timed out
\* included: once an item has released the gate, no invocation of process_func for
\* it is still executing.
C27_InvocationsBounded ==
    /\ Cardinality({i \in Tasks : Executing(i)}) <= workers
    /\ \A i \in Tasks : ~HoldsGate(i) => ~Executing(i)

\* C28: the per-item timeout bounds the whole retry sequence of an item, its
\* attempts and the delays between them, counted from the moment the item acquires
\* the gate and not from the start of the call: while the item is RUNNING no more
\* than timeout seconds have passed since then, no attempt begins later than that,
\* an item that times out ends exactly then, and once it has timed out no further
\* attempt is started, even when fewer than max_retries + 1 attempts were made.
C28_TimeoutBoundsRetries ==
    /\ [](TimeoutEnabled =>
            \A i \in Tasks :
                /\ pc[i] = "running" => now - times[i].gate <= timeout
                /\ times[i].gate >= 0 => times[i].invoke - times[i].gate <= timeout
                /\ Terminal(i) => times[i].end - times[i].gate <= timeout
                /\ timedOut[i] => /\ Failed(i)
                                  /\ times[i].end - times[i].gate = timeout)
    /\ [][\A i \in Tasks : timedOut[i] => attempts'[i] = attempts[i]]_vars

\* One worker and one retry allowed: the second item waited two seconds for the
\* gate, and timed out two seconds after it got it, at its first attempt.
C28_Witness ==
    /\ Returned
    /\ Len(items) = 2
    /\ max_retries = 1
    /\ timedOut[2]
    /\ times[2].gate = 2
    /\ times[2].end = 4
    /\ attempts[2] = 1

\* How often event e occurs among the events of task i.
Count(i, e) == Cardinality({k \in 1..Len(events[i]) : events[i][k] = e})

\* C29: every acquisition of the gate is matched by exactly one release on every
\* exit path of an item (success, exhausted retries, timeout, cancellation): the
\* permits held and the permits free are workers together at any time, an item that
\* has ended holds none, and none is held when parallel_process returns.
C29_PermitsConserved ==
    items # <<>> =>
        /\ sem + Cardinality({i \in Tasks : HoldsGate(i)}) = workers
        /\ \A i \in Tasks :
              /\ Count(i, "gate") <= 1
              /\ Count(i, "release") <= Count(i, "gate")
              /\ pc[i] \in {"succeeded", "failed", "cancelled"} =>
                    Count(i, "release") = Count(i, "gate")
        /\ callPc = "returned" => sem = workers

\* Returned after a cancellation: an item had timed out, another was cancelled
\* while it was RUNNING, and every permit is back.
C29_Witness ==
    /\ Returned
    /\ fault = "cancel"
    /\ sem = workers
    /\ \E i, j \in Tasks :
          /\ timedOut[i] /\ Count(i, "release") = 1
          /\ Cancelled(j) /\ Count(j, "gate") = 1 /\ Count(j, "release") = 1

====
